---- MODULE Spec2Model ----
(***************************************************************************)
(* Model of the AQUOS remote-control client (package aquos).               *)
(*                                                                         *)
(* One Session: the caller's thread runs Connect (dial, start readLoop,    *)
(* login, getInfo) and then Command Surface calls; the readLoop goroutine  *)
(* frames the device's lines and hands each to the caller over the         *)
(* unbuffered channel c.res; the device and a concurrent Close are the     *)
(* environment.                                                            *)
(*                                                                         *)
(* Texts are sequences of word atoms (<<"Login">> is the text "Login",     *)
(* <<>> the empty string); bytes written to the stream are atoms too, so   *)
(* that send's trailing carriage return and the padding of the argument    *)
(* are visible on the wire.  Errors are sequences of strings, Nil the nil  *)
(* error.                                                                  *)
(***************************************************************************)
EXTENDS Integers, Sequences, FiniteSets, TLC

\* ------------------------------------------------------------------ bounds
MaxPending == 1    \* lines the device has emitted that no caller received yet
MaxCalls == 1      \* Command Surface calls after Connect returned
MaxStream == 3     \* bytes of the streams whose every chunking is enumerated

\* ------------------------------------------------------- values and errors
Nil == <<>>

ErrInvalidResponse == <<"failed to login (invalid response)">>
ErrNoUsername      == <<"username is not specified">>
ErrNoPassword      == <<"Password is not specified">>
ErrNoRespond       == <<"failed to login (AQUOS does not respond)">>
\* sendCommand, had it left err nil for the answer "ERR"
ErrAquosNone       == <<>>
ErrAquos           == <<"aquos returns a error">>
ErrAlreadyClosed   == <<"connection already closed">>
ErrRead            == <<"read error">>
ErrWrite           == <<"write error">>
ErrDial            == <<"dial error">>
ErrAtoi            == <<"strconv.Atoi: invalid syntax">>
ErrUseOfClosed     == <<"use of closed network connection">>

\* fmt.Errorf("failed to login (%s)", r.text)
ErrRejected(text) == <<"failed to login (%s)">> \o text

\* the lines the device may emit, and the credentials the caller may configure
Texts     == { <<"Login">>, <<"Password">>, <<"ERR">>, <<"30">> }
Usernames == { <<>>, <<"user1">> }
Passwords == { <<>>, <<"pass1">> }

\* the copies of the client in the repository: aquos.go, the copy of the
\* package in cmd/aquos/main.go whose login does not check the credentials,
\* and the client of unnamed/part_000, which has no Connect: its sendCommand
\* dials, starts readLoop, logs in when both credentials are set, sends the
\* command, reads the answer and closes the connection
Libs == { "aquos.go", "main.go", "part_000" }

\* strings.Contains(text, word), for the one-word patterns the client uses
Contains(text, word) == \E i \in DOMAIN text : text[i] = word

\* fmt.Sprintf("%-4s", arg): left-justified, padded with spaces to width 4
PadRight4(arg) ==
    IF Len(arg) >= 4 THEN arg ELSE arg \o [i \in 1..(4 - Len(arg)) |-> " "]

\* fmt.Sprintf("%s%-4s", cmd, arg)
FormatCommand(cmd, arg) == <<cmd>> \o PadRight4(arg)

\* send without its WriteByte('\r')
SendBytesNoCR(str) == str

\* the bytes one successful send puts on the stream: str, then '\r'
SendBytes(str) == str \o <<"\r">>

\* number of completed sends on the wire
NumWritten(w) == Cardinality({ i \in DOMAIN w : w[i] = "\r" })

\* the response records: text and err are the fields of the struct; term and
\* seq tell the properties that the record is readLoop's last one, and the
\* record's position among the records readLoop framed
TextRecord(text) == [text |-> text, err |-> Nil, term |-> FALSE, seq |-> 0]
TermRecord(err)  == [text |-> <<>>, err |-> err, term |-> TRUE,  seq |-> 0]
ZeroRecord       == [text |-> <<>>, err |-> Nil, term |-> FALSE, seq |-> 0]

\* getInfo, had it asked for the software version before the model name
InfoCmdsSwapped == << "TVNM", "SWVN", "MNRD", "IPPV" >>

\* the four identity queries of getInfo, in order
InfoCmds == << "TVNM", "MNRD", "SWVN", "IPPV" >>

\* the Command Surface operations the caller may invoke
\* Power(on): arg := "0"; if on { arg = "1" }
PowerArg(on) == IF on THEN <<"1">> ELSE <<"0">>

SurfaceOps == { [op |-> "Power",  cmd |-> "POWR", arg |-> PowerArg(TRUE)],
                [op |-> "Volume", cmd |-> "VOLM", arg |-> <<"?">>] }

\* strconv.Atoi on the texts of the model
AtoiOk(text)  == text = <<"30">>
AtoiVal(text) == IF text = <<"30">> THEN 30 ELSE 0

VARIABLES
    lib,          \* which copy of the client runs
    Username,     \* Client.Username
    Password,     \* Client.Password
    pc,           \* position of the caller's thread
    cur,          \* the sendCommand in progress
    conn,         \* c.conn: "nil", "open", "eof", "reset", "closed"
    werr,         \* sticky error of the bufio.Writer c.w
    wire,         \* bytes the device side of the stream has been sent
    inq,          \* lines the device emitted that the reader has not framed
    rpc,          \* position of readLoop
    rrec,         \* the record readLoop is sending on c.res
    chClosed,     \* c.res is closed
    closeCount,   \* number of close(c.res) executed
    loginRes,     \* result of login: "none" while not returned
    connectRes,   \* result of Connect
    info,         \* name, modelName, softwareVersion, ipProtocolVersion
    callRes,      \* result of the last Command Surface call
    ncalls,       \* Command Surface calls made
    closeRes,     \* result of the last Close
    \* ---- history, read by the properties only
    nframed,      \* number of records readLoop framed
    received,     \* the records the caller received, in order: their seq, term
    hs,           \* what each wait of the handshake saw
    hsWire,       \* wire at the moment login returned
    last,         \* the last sendCommand that returned
    unanswered,   \* commands written whose sendCommand received no record
    outstanding,  \* commands written whose sendCommand has not returned
    \* ---- the bufio.Scanner of readLoop, byte by byte
    stream,       \* the bytes the device sends on the connection
    scanStart,    \* bytes of the stream the Scanner consumed (s.start)
    scanEnd,      \* bytes of the stream the Scanner read (s.end)
    scanErr,      \* s.err: "nil", "EOF", "ErrTooLong"
    tokens,       \* the tokens Scan returned, as slices of the stream
    spc           \* position in Scan: "idle", "split", "read", "done"

vars == << lib, Username, Password, pc, cur, conn, werr, wire, inq, rpc, rrec,
           chClosed, closeCount, loginRes, connectRes, info, callRes, ncalls,
           closeRes, nframed, received, hs, hsWire, last, unanswered,
           outstanding, stream, scanStart, scanEnd, scanErr, tokens, spc >>

cfgVars  == << lib, Username, Password >>
scanVars == << stream, scanStart, scanEnd, scanErr, tokens, spc >>
histVars == << nframed, received, hs, hsWire, last, unanswered,
              outstanding >>
sessVars == << cfgVars, pc, cur, conn, werr, wire, inq, rpc, rrec, chClosed,
               closeCount, loginRes, connectRes, info, callRes, ncalls,
               closeRes, histVars >>

\* no sendCommand in progress
NoCur == [kind |-> "none", idx |-> 0, op |-> "none", cmd |-> "none",
          arg |-> <<>>, wrote |-> 0, oldLine |-> FALSE, termBefore |-> FALSE,
          blockedAtClose |-> "no"]

\* no sendCommand has returned
NoLast == [kind |-> "none", idx |-> 0, wrote |-> 0, oldLine |-> FALSE,
           gotRec |-> FALSE, got |-> ZeroRecord, res |-> <<>>, err |-> Nil,
           termBefore |-> FALSE, blockedAtClose |-> "no", loginOk |-> FALSE]

\* the Session before Connect, with credentials from the sets users, passes
NewSession(l, users, passes) ==
    /\ lib = l
    /\ Username \in users
    /\ Password \in passes
    /\ pc = "init"
    /\ cur = NoCur
    /\ conn = "nil"
    /\ werr = FALSE
    /\ wire = <<>>
    /\ inq = <<>>
    /\ rpc = "none"
    /\ rrec = ZeroRecord
    /\ chClosed = FALSE
    /\ closeCount = 0
    /\ loginRes = <<"none">>
    /\ connectRes = <<"none">>
    /\ info = << <<>>, <<>>, <<>>, <<>> >>
    /\ callRes = [res |-> <<>>, err |-> <<"none">>, val |-> 0]
    /\ ncalls = 0
    /\ closeRes = <<"none">>
    /\ nframed = 0
    /\ received = <<>>
    /\ hs = <<>>
    /\ hsWire = <<>>
    /\ last = NoLast
    /\ unanswered = 0
    /\ outstanding = 0

\* a Scanner that was not created
NoScanner ==
    /\ stream = [pad |-> 0, body |-> <<>>]
    /\ scanStart = 0
    /\ scanEnd = 0
    /\ scanErr = "nil"
    /\ tokens = <<>>
    /\ spc = "idle"

InitOf(l) == NewSession(l, Usernames, Passwords) /\ NoScanner

\* the client of aquos.go
Init == InitOf("aquos.go")

\* the copy of the client in cmd/aquos/main.go
InitMain == InitOf("main.go")

\* ------------------------------------------------------------ the channel
\* lines and records on their way to the caller
Pending == Len(inq) + (IF rpc \in {"send", "sendLast"} THEN 1 ELSE 0)

\* a line the device emitted is on its way to the caller: readLoop holds it
\* or has not framed it yet.  Lines reach the caller in the order the device
\* emitted them, so the next record a caller receives is this line.
OldLine == inq # <<>> \/ rpc = "send"

\* a receive from c.res can complete: readLoop is blocked in its send, or
\* the channel is closed (a receive from a closed channel yields the zero value)
CanRecv == chClosed \/ rpc \in {"send", "sendLast"}

\* the value a receive yields
RecvVal == IF chClosed THEN ZeroRecord ELSE rrec

\* the receive completes: readLoop's send returns and the caller has the record
Handoff ==
    /\ rpc' = IF chClosed THEN rpc
              ELSE IF rpc = "send" THEN "scan" ELSE "closing"
    /\ received' = IF chClosed THEN received
                    ELSE Append(received,
                                [seq |-> rrec.seq, term |-> rrec.term])
    /\ UNCHANGED << rrec, chClosed, closeCount, nframed, inq >>

\* a terminal record has been delivered to the caller
TermDelivered == \E i \in DOMAIN received : received[i].term

\* ---------------------------------------------------------------- send
\* send(str): WriteString, WriteByte('\r'), Flush.  ok is the outcome of the
\* write: a Writer with a sticky error fails in WriteString, a flush to a
\* stream that is locally closed or reset fails, a flush to a stream the
\* device has closed may still succeed.
Send(str, ok) ==
    IF ok
    THEN /\ ~werr
         /\ conn \in {"open", "eof"}
         /\ wire' = wire \o SendBytes(str)
         /\ werr' = werr
    ELSE /\ werr \/ conn \in {"eof", "reset", "closed"}
         /\ wire' = wire
         /\ werr' = TRUE

\* a result that is an error
Failed(res) == res # <<"none">> /\ res # Nil

\* ------------------------------------------------------------- Connect
\* the sendCommand that starts now
NewCur(kind, idx, op, cmd, arg) ==
    [kind |-> kind, idx |-> idx, op |-> op, cmd |-> cmd, arg |-> arg,
     wrote |-> 0, oldLine |-> FALSE, termBefore |-> TermDelivered',
     blockedAtClose |-> "no"]

\* login returned err: Connect returns it (in part_000 sendCommand returns
\* it, and its deferred c.conn.Close() runs)
LoginFails(err) ==
    /\ loginRes' = err
    /\ connectRes' = err
    /\ hsWire' = wire'
    /\ pc' = IF lib = "part_000" THEN "deferred" ELSE "ready"
    /\ cur' = cur

\* login returned nil: Connect goes on to getInfo, whose first statement is
\* sendCommand("TVNM", "1") (in part_000 sendCommand goes on to send its
\* command)
LoginSucceeds ==
    /\ loginRes' = Nil
    /\ connectRes' = connectRes
    /\ hsWire' = wire'
    /\ pc' = "send"
    /\ cur' = IF lib = "part_000" THEN cur
              ELSE NewCur("info", 1, "getInfo", InfoCmds[1], <<"1">>)

HsEvent(ev, r) == [ev |-> ev, text |-> r.text, err |-> r.err]

\* Connect: the dial fails
DialFail ==
    /\ pc = "init"
    /\ connectRes' = ErrDial
    /\ pc' = "ready"
    /\ UNCHANGED << cfgVars, scanVars, cur, conn, werr, wire, inq, rpc, rrec,
                    chClosed, closeCount, loginRes, info, callRes, ncalls,
                    closeRes, histVars >>

\* Connect: the dial succeeds; c.conn, c.w and c.res are set, readLoop is
\* started and login begins with its first select
DialOk ==
    /\ pc = "init"
    /\ conn' = "open"
    /\ rpc' = "scan"
    /\ pc' = "waitLogin"
    /\ UNCHANGED << cfgVars, scanVars, cur, werr, wire, inq, rrec, chClosed,
                    closeCount, loginRes, connectRes, info, callRes, ncalls,
                    closeRes, histVars >>

\* the first select, had its timeout case discarded the record readLoop holds
LoginTimeoutDrops ==
    /\ pc = "waitLogin"
    /\ hs' = Append(hs, HsEvent("timeout", ZeroRecord))
    /\ UNCHANGED << wire, werr, received >>
    /\ LoginSucceeds
    /\ rpc' = IF rpc = "send" THEN "scan" ELSE rpc
    /\ UNCHANGED << cfgVars, scanVars, conn, inq, rrec, chClosed, closeCount, info,
                    callRes, ncalls, closeRes, nframed, last,
                    unanswered, outstanding >>

\* the first select, had its timeout case returned the error of the second
LoginTimeoutFails ==
    /\ pc = "waitLogin"
    /\ hs' = Append(hs, HsEvent("timeout", ZeroRecord))
    /\ UNCHANGED << wire, werr, received >>
    /\ LoginFails(ErrNoRespond)
    /\ UNCHANGED << cfgVars, scanVars, conn, inq, rpc, rrec, chClosed, closeCount, info,
                    callRes, ncalls, closeRes, nframed, last,
                    unanswered, outstanding >>

\* login, first select: time.After fires
LoginTimeout ==
    /\ pc = "waitLogin"
    /\ hs' = Append(hs, HsEvent("timeout", ZeroRecord))
    /\ UNCHANGED << wire, werr, received >>
    /\ LoginSucceeds
    /\ UNCHANGED << cfgVars, scanVars, conn, inq, rpc, rrec, chClosed,
                    closeCount, info, callRes, ncalls, closeRes,
                    nframed, last, unanswered, outstanding >>

\* the first select, had it waited again after a line that is no prompt
LoginRecvSkipsBanner ==
    /\ pc = "waitLogin"
    /\ CanRecv
    /\ Handoff
    /\ hs' = Append(hs, HsEvent("recv", RecvVal))
    /\ IF RecvVal.err # Nil
       THEN UNCHANGED << wire, werr >> /\ LoginFails(RecvVal.err)
       ELSE IF ~Contains(RecvVal.text, "Login")
       THEN UNCHANGED << wire, werr, pc, loginRes, connectRes, hsWire, cur >>
       ELSE IF lib = "aquos.go" /\ Username = <<>>
       THEN UNCHANGED << wire, werr >> /\ LoginFails(ErrNoUsername)
       ELSE \E ok \in BOOLEAN :
              /\ Send(Username, ok)
              /\ IF ok
                 THEN /\ pc' = "waitPassword"
                      /\ UNCHANGED << loginRes, connectRes, hsWire, cur >>
                 ELSE LoginFails(ErrWrite)
    /\ UNCHANGED << cfgVars, scanVars, conn, info, callRes, ncalls, closeRes,
                    last, unanswered, outstanding >>

\* login, first select: a record arrives
LoginRecv ==
    /\ pc = "waitLogin"
    /\ CanRecv
    /\ Handoff
    /\ hs' = Append(hs, HsEvent("recv", RecvVal))
    /\ IF RecvVal.err # Nil
       THEN UNCHANGED << wire, werr >> /\ LoginFails(RecvVal.err)
       ELSE IF ~Contains(RecvVal.text, "Login")
       THEN UNCHANGED << wire, werr >> /\ LoginFails(ErrInvalidResponse)
       ELSE IF lib = "aquos.go" /\ Username = <<>>
       THEN UNCHANGED << wire, werr >> /\ LoginFails(ErrNoUsername)
       ELSE \E ok \in BOOLEAN :
              /\ Send(Username, ok)
              /\ IF ok
                 THEN /\ pc' = "waitPassword"
                      /\ UNCHANGED << loginRes, connectRes, hsWire, cur >>
                 ELSE LoginFails(ErrWrite)
    /\ UNCHANGED << cfgVars, scanVars, conn, info, callRes, ncalls, closeRes, last,
                    unanswered, outstanding >>

\* the second select, had its timeout case meant "no login required" as the
\* first one does
PasswordTimeoutSucceeds ==
    /\ pc = "waitPassword"
    /\ hs' = Append(hs, HsEvent("timeout", ZeroRecord))
    /\ UNCHANGED << wire, werr, received >>
    /\ LoginSucceeds
    /\ UNCHANGED << cfgVars, scanVars, conn, inq, rpc, rrec, chClosed,
                    closeCount, info, callRes, ncalls, closeRes,
                    nframed, last, unanswered, outstanding >>

\* login, second select: time.After fires
PasswordTimeout ==
    /\ pc = "waitPassword"
    /\ hs' = Append(hs, HsEvent("timeout", ZeroRecord))
    /\ UNCHANGED << wire, werr, received >>
    /\ LoginFails(ErrNoRespond)
    /\ UNCHANGED << cfgVars, scanVars, conn, inq, rpc, rrec, chClosed,
                    closeCount, info, callRes, ncalls, closeRes,
                    nframed, last, unanswered, outstanding >>

\* the second select, had it sent the password in reply to any line
PasswordRecvAnyLine ==
    /\ pc = "waitPassword"
    /\ CanRecv
    /\ Handoff
    /\ hs' = Append(hs, HsEvent("recv", RecvVal))
    /\ IF RecvVal.err # Nil
       THEN UNCHANGED << wire, werr >> /\ LoginFails(RecvVal.err)
       ELSE IF lib = "aquos.go" /\ Password = <<>>
       THEN UNCHANGED << wire, werr >> /\ LoginFails(ErrNoPassword)
       ELSE \E ok \in BOOLEAN :
              /\ Send(Password, ok)
              /\ IF ok
                 THEN /\ pc' = "waitOutcome"
                      /\ UNCHANGED << loginRes, connectRes, hsWire, cur >>
                 ELSE LoginFails(ErrWrite)
    /\ UNCHANGED << cfgVars, scanVars, conn, info, callRes, ncalls, closeRes,
                    last, unanswered, outstanding >>

\* login, second select: a record arrives
PasswordRecv ==
    /\ pc = "waitPassword"
    /\ CanRecv
    /\ Handoff
    /\ hs' = Append(hs, HsEvent("recv", RecvVal))
    /\ IF RecvVal.err # Nil
       THEN UNCHANGED << wire, werr >> /\ LoginFails(RecvVal.err)
       ELSE IF ~Contains(RecvVal.text, "Password")
       THEN UNCHANGED << wire, werr >> /\ LoginFails(ErrInvalidResponse)
       ELSE IF lib = "aquos.go" /\ Password = <<>>
       THEN UNCHANGED << wire, werr >> /\ LoginFails(ErrNoPassword)
       ELSE \E ok \in BOOLEAN :
              /\ Send(Password, ok)
              /\ IF ok
                 THEN /\ pc' = "waitOutcome"
                      /\ UNCHANGED << loginRes, connectRes, hsWire, cur >>
                 ELSE LoginFails(ErrWrite)
    /\ UNCHANGED << cfgVars, scanVars, conn, info, callRes, ncalls, closeRes, last,
                    unanswered, outstanding >>

\* login, third select: time.After fires (login success)
OutcomeTimeout ==
    /\ pc = "waitOutcome"
    /\ hs' = Append(hs, HsEvent("timeout", ZeroRecord))
    /\ UNCHANGED << wire, werr, received >>
    /\ LoginSucceeds
    /\ UNCHANGED << cfgVars, scanVars, conn, inq, rpc, rrec, chClosed,
                    closeCount, info, callRes, ncalls, closeRes,
                    nframed, last, unanswered, outstanding >>

\* login, third select: a record arrives (login failed)
OutcomeRecv ==
    /\ pc = "waitOutcome"
    /\ CanRecv
    /\ Handoff
    /\ hs' = Append(hs, HsEvent("recv", RecvVal))
    /\ UNCHANGED << wire, werr >>
    /\ IF RecvVal.err # Nil
       THEN LoginFails(RecvVal.err)
       ELSE LoginFails(ErrRejected(RecvVal.text))
    /\ UNCHANGED << cfgVars, scanVars, conn, info, callRes, ncalls, closeRes, last,
                    unanswered, outstanding >>

\* ------------------------------------------------- sendCommand and callers
LogEntry(gotRec, got, res, err) ==
    [kind |-> cur.kind, idx |-> cur.idx, wrote |-> cur.wrote,
     oldLine |-> cur.oldLine, gotRec |-> gotRec, got |-> got, res |-> res,
     err |-> err,
     termBefore |-> cur.termBefore, blockedAtClose |-> cur.blockedAtClose,
     loginOk |-> (loginRes = Nil)]

\* getInfo, had it not checked err after each sendCommand
InfoReturnsIgnoresErr(res, err) ==
    /\ info' = [info EXCEPT ![cur.idx] = res]
    /\ IF cur.idx < Len(InfoCmds)
       THEN /\ connectRes' = connectRes
            /\ pc' = "send"
            /\ cur' = NewCur("info", cur.idx + 1, "getInfo",
                             InfoCmds[cur.idx + 1], <<"1">>)
       ELSE /\ connectRes' = err
            /\ pc' = "ready"
            /\ cur' = NoCur
    /\ UNCHANGED callRes

\* sendCommand returned (res, err) to getInfo: the field is assigned, and
\* getInfo returns the error or goes on to the next query
InfoReturns(res, err) ==
    /\ info' = [info EXCEPT ![cur.idx] = res]
    /\ IF err # Nil
       THEN /\ connectRes' = err
            /\ pc' = "ready"
            /\ cur' = NoCur
       ELSE IF cur.idx < Len(InfoCmds)
       THEN /\ connectRes' = connectRes
            /\ pc' = "send"
            /\ cur' = NewCur("info", cur.idx + 1, "getInfo",
                             InfoCmds[cur.idx + 1], <<"1">>)
       ELSE /\ connectRes' = Nil
            /\ pc' = "ready"
            /\ cur' = NoCur
    /\ UNCHANGED callRes

\* sendCommand returned (res, err) to a Command Surface operation
SurfaceReturns(res, err) ==
    /\ callRes' = IF cur.op = "Volume"
                  THEN IF err # Nil
                       THEN [res |-> res, err |-> err, val |-> 0]
                       ELSE IF AtoiOk(res)
                       THEN [res |-> res, err |-> Nil, val |-> AtoiVal(res)]
                       ELSE [res |-> res, err |-> ErrAtoi, val |-> 0]
                  ELSE [res |-> res, err |-> err, val |-> 0]
    /\ pc' = IF lib = "part_000" THEN "deferred" ELSE "ready"
    /\ cur' = NoCur
    /\ UNCHANGED << info, connectRes >>

\* sendCommand returns (res, err) to whoever called it
Returns(gotRec, got, res, err) ==
    /\ last' = LogEntry(gotRec, got, res, err)
    /\ unanswered' = IF gotRec THEN unanswered - 1 ELSE unanswered
    /\ outstanding' = IF cur.wrote > 0 THEN outstanding - 1 ELSE outstanding
    /\ IF cur.kind = "info"
       THEN InfoReturns(res, err)
       ELSE SurfaceReturns(res, err)

\* sendCommand, had it returned after the write without reading the answer
SendCmdNoRead ==
    /\ pc = "send"
    /\ UNCHANGED received
    /\ \E ok \in BOOLEAN :
         /\ Send(FormatCommand(cur.cmd, cur.arg), ok)
         /\ IF ok
            THEN /\ unanswered' = unanswered + 1
                 /\ outstanding' = outstanding + 1
                 /\ last' = LogEntry(FALSE, ZeroRecord, <<>>, Nil)
                 /\ IF cur.kind = "info"
                    THEN InfoReturns(<<>>, Nil)
                    ELSE SurfaceReturns(<<>>, Nil)
            ELSE Returns(FALSE, ZeroRecord, <<>>, ErrWrite)
    /\ UNCHANGED << cfgVars, scanVars, conn, inq, rpc, rrec, chClosed, closeCount,
                    loginRes, ncalls, closeRes, nframed, hs, hsWire >>

\* sendCommand, first half: c.send(fmt.Sprintf("%s%-4s", cmd, arg))
SendCmd ==
    /\ pc = "send"
    /\ UNCHANGED received
    /\ \E ok \in BOOLEAN :
         /\ Send(FormatCommand(cur.cmd, cur.arg), ok)
         /\ IF ok
            THEN /\ pc' = "read"
                 /\ cur' = [cur EXCEPT !.wrote = NumWritten(wire'),
                                       !.oldLine = OldLine]
                 /\ unanswered' = unanswered + 1
                 /\ outstanding' = outstanding + 1
                 /\ UNCHANGED << info, connectRes, callRes, last >>
            ELSE Returns(FALSE, ZeroRecord, <<>>, ErrWrite)
    /\ UNCHANGED << cfgVars, scanVars, conn, inq, rpc, rrec, chClosed,
                    closeCount, loginRes, ncalls, closeRes, nframed,
                    hs, hsWire >>

\* readLine, had it not looked at ok: the zero value of a closed channel is
\* taken for a record
ReadLineNoOk ==
    /\ pc = "read"
    /\ CanRecv
    /\ Handoff
    /\ IF RecvVal.err # Nil
       THEN Returns(~chClosed, RecvVal, <<>>, RecvVal.err)
       ELSE IF RecvVal.text = <<"ERR">>
       THEN Returns(~chClosed, RecvVal, RecvVal.text, ErrAquos)
       ELSE Returns(~chClosed, RecvVal, RecvVal.text, Nil)
    /\ UNCHANGED << cfgVars, scanVars, conn, werr, wire, loginRes, ncalls, closeRes, hs,
                    hsWire >>

\* sendCommand, second half: c.readLine() and the check for "ERR"
ReadLine ==
    /\ pc = "read"
    /\ CanRecv
    /\ Handoff
    /\ IF chClosed
       THEN Returns(FALSE, ZeroRecord, <<>>, ErrAlreadyClosed)
       ELSE IF rrec.err # Nil
       THEN Returns(TRUE, rrec, <<>>, rrec.err)
       ELSE IF rrec.text = <<"ERR">>
       THEN Returns(TRUE, rrec,
                    IF lib = "part_000" THEN <<>> ELSE rrec.text, ErrAquos)
       ELSE Returns(TRUE, rrec, rrec.text, Nil)
    /\ UNCHANGED << cfgVars, scanVars, conn, werr, wire, loginRes, ncalls,
                    closeRes, hs, hsWire >>

\* the caller invokes a Command Surface operation: Power(on) or Volume().
\* On a Client whose dial failed c.w is nil and WriteString panics.
CallSurface ==
    /\ pc = "ready"
    /\ ncalls < MaxCalls
    /\ ncalls' = ncalls + 1
    /\ UNCHANGED received
    /\ IF conn = "nil"
       THEN /\ pc' = "panicked"
            /\ cur' = cur
       ELSE /\ pc' = "send"
            /\ \E o \in SurfaceOps :
                 cur' = NewCur("call", ncalls + 1, o.op, o.cmd, o.arg)
    /\ UNCHANGED << cfgVars, scanVars, conn, werr, wire, inq, rpc, rrec,
                    chClosed, closeCount, loginRes, connectRes, info, callRes,
                    closeRes, nframed, hs, hsWire, last, unanswered,
                    outstanding >>

\* ------------------------------------------- sendCommand of part_000
\* a Command Surface operation on a new Client: sendCommand's Dial fails
PartDialFail ==
    /\ lib = "part_000"
    /\ pc = "init"
    /\ ncalls' = ncalls + 1
    /\ callRes' = [res |-> <<>>, err |-> ErrDial, val |-> 0]
    /\ pc' = "ready"
    /\ UNCHANGED << cfgVars, scanVars, cur, conn, werr, wire, inq, rpc, rrec,
                    chClosed, closeCount, loginRes, connectRes, info,
                    closeRes, histVars >>

\* a Command Surface operation on a new Client: sendCommand's Dial succeeds;
\* c.conn, c.w and c.res are set and readLoop is started; login is called
\* only if both credentials are set, otherwise the command is sent at once
PartDialOk ==
    /\ lib = "part_000"
    /\ pc = "init"
    /\ ncalls' = ncalls + 1
    /\ conn' = "open"
    /\ rpc' = "scan"
    /\ UNCHANGED received
    /\ \E o \in SurfaceOps :
         cur' = NewCur("call", ncalls + 1, o.op, o.cmd, o.arg)
    /\ pc' = IF Len(Username) # 0 /\ Len(Password) # 0
             THEN "waitLogin" ELSE "send"
    /\ UNCHANGED << cfgVars, scanVars, werr, wire, inq, rrec, chClosed,
                    closeCount, loginRes, connectRes, info, callRes,
                    closeRes, nframed, hs, hsWire, last, unanswered,
                    outstanding >>

\* sendCommand of part_000 returns: its deferred c.conn.Close() runs; the
\* error of login, if any, is what the operation returns
PartDeferredClose ==
    /\ pc = "deferred"
    /\ conn' = "closed"
    /\ cur' = NoCur
    /\ callRes' = IF Failed(loginRes)
                  THEN [res |-> <<>>, err |-> loginRes, val |-> 0]
                  ELSE callRes
    /\ pc' = "ready"
    /\ UNCHANGED << cfgVars, scanVars, werr, wire, inq, rpc, rrec, chClosed,
                    closeCount, loginRes, connectRes, info, ncalls, closeRes,
                    histVars >>

\* ----------------------------------------------------------------- Close
\* the caller in sendCommand is blocked in readLine with no record on its way:
\* readLoop is blocked in Scan and the stream holds no unread line
BlockedIdle == pc = "read" /\ rpc = "scan" /\ inq = <<>> /\ conn = "open"

\* the stream ends in the way how; a blocked sendCommand remembers it
StreamEnds(how) ==
    /\ conn' = how
    /\ cur' = IF BlockedIdle THEN [cur EXCEPT !.blockedAtClose = how] ELSE cur

\* Close(), from any goroutine once Connect was called: c.conn.Close() unless
\* c.conn is nil; closing a connection that is closed already returns an error
Close ==
    /\ pc # "init"
    /\ IF conn = "nil"
       THEN /\ closeRes' = Nil
            /\ UNCHANGED << conn, cur >>
       ELSE IF conn = "closed"
       THEN /\ closeRes' = ErrUseOfClosed
            /\ UNCHANGED << conn, cur >>
       ELSE /\ closeRes' = Nil
            /\ StreamEnds("closed")
    /\ UNCHANGED << cfgVars, scanVars, pc, werr, wire, inq, rpc, rrec, chClosed,
                    closeCount, loginRes, connectRes, info, callRes, ncalls,
                    histVars >>

\* ---------------------------------------------------------------- device
\* what the device may emit after it was sent n lines: its login dialogue
\* spans at most the first two lines it is sent (username, password); later
\* it only answers commands, with a value or with ERR
DeviceTexts(n) == IF n < 2 THEN Texts ELSE { <<"ERR">>, <<"30">> }

\* the device emits one line
DeviceEmit ==
    /\ conn = "open"
    /\ Pending < MaxPending
    /\ \E t \in DeviceTexts(NumWritten(wire)) :
         inq' = Append(inq, TextRecord(t))
    /\ UNCHANGED << cfgVars, scanVars, pc, cur, conn, werr, wire, rpc, rrec, chClosed,
                    closeCount, loginRes, connectRes, info, callRes, ncalls,
                    closeRes, histVars >>

\* the device closes the stream cleanly: the reader will see io.EOF
DeviceClose ==
    /\ conn = "open"
    /\ StreamEnds("eof")
    /\ UNCHANGED << cfgVars, scanVars, pc, werr, wire, inq, rpc, rrec, chClosed,
                    closeCount, loginRes, connectRes, info, callRes, ncalls,
                    closeRes, histVars >>

\* the stream breaks: the reader will see a read error
DeviceReset ==
    /\ conn = "open"
    /\ StreamEnds("reset")
    /\ UNCHANGED << cfgVars, scanVars, pc, werr, wire, inq, rpc, rrec, chClosed,
                    closeCount, loginRes, connectRes, info, callRes, ncalls,
                    closeRes, histVars >>

\* -------------------------------------------------------------- readLoop
\* s.Scan() returns true: the next line is framed; readLoop goes to send it.
\* Lines that were read before the stream broke or was closed are still
\* framed; lines before a clean end of stream always are.
ReaderScanLine ==
    /\ rpc = "scan"
    /\ inq # <<>>
    /\ nframed' = nframed + 1
    /\ rrec' = [Head(inq) EXCEPT !.seq = nframed']
    /\ inq' = Tail(inq)
    /\ rpc' = "send"
    /\ UNCHANGED << cfgVars, scanVars, pc, cur, conn, werr, wire, chClosed,
                    closeCount, loginRes, connectRes, info, callRes, ncalls,
                    closeRes, received, hs, hsWire, last,
                    unanswered, outstanding >>

\* readLoop, had it returned at the end of the stream without sending the
\* last record
ReaderScanEndNoSend ==
    /\ rpc = "scan"
    /\ \/ conn = "eof" /\ inq = <<>>
       \/ conn \in {"reset", "closed"}
    /\ rpc' = "closing"
    /\ UNCHANGED << cfgVars, scanVars, pc, cur, conn, werr, wire, inq, rrec, chClosed,
                    closeCount, loginRes, connectRes, info, callRes, ncalls,
                    closeRes, histVars >>

\* s.Scan() returns false: the record carries s.Err(), which is nil at a
\* clean end of stream; readLoop goes to send it and then returns
ReaderScanEnd ==
    /\ rpc = "scan"
    /\ \/ conn = "eof" /\ inq = <<>>
       \/ conn \in {"reset", "closed"}
    /\ nframed' = nframed + 1
    /\ rrec' = [TermRecord(IF conn = "eof" THEN Nil ELSE ErrRead)
                   EXCEPT !.seq = nframed']
    /\ rpc' = "sendLast"
    /\ UNCHANGED << cfgVars, scanVars, pc, cur, conn, werr, wire, inq, chClosed,
                    closeCount, loginRes, connectRes, info, callRes, ncalls,
                    closeRes, received, hs, hsWire, last,
                    unanswered, outstanding >>

\* readLoop returned: the deferred close(c.res) runs
ReaderClose ==
    /\ rpc = "closing"
    /\ chClosed' = TRUE
    /\ closeCount' = closeCount + 1
    /\ rpc' = "done"
    /\ UNCHANGED << cfgVars, scanVars, pc, cur, conn, werr, wire, inq, rrec,
                    loginRes, connectRes, info, callRes, ncalls, closeRes,
                    histVars >>

\* ------------------------------------------------------- the Line Framer
\* bufio.MaxScanTokenSize, the size the buffer of bufio.NewScanner grows to
MaxScanTokenSize == 65536

\* the bytes of the model: two bytes of a line and the three separators
Bytes == { "a", "b", "\r", "\n", ":" }

isIgnore(b) == b = "\r" \/ b = "\n" \/ b = ":"

\* a stream is pad bytes "a" followed by the bytes of body
StreamLen(s) == s.pad + Len(s.body)
ByteAt(s, i) == IF i <= s.pad THEN "a" ELSE s.body[i - s.pad]

\* the streams: every sequence of up to MaxStream bytes, and the streams that
\* begin with a run one byte short of the Scanner's buffer
Bodies  == UNION { [1..k -> Bytes] : k \in 0..MaxStream }
Streams ==
    { [pad |-> 0, body |-> b] : b \in Bodies }
      \cup { [pad |-> MaxScanTokenSize - 1, body |-> b] :
                b \in { c \in Bodies : Len(c) <= 1 } }

\* s.buf[s.start:s.end], the data handed to the split function
Slice(s, lo, hi) == [s |-> s, lo |-> lo, len |-> hi - lo]

\* data[i], i from 0
At(data, i) == ByteAt(data.s, data.lo + i + 1)

\* the token data[from:to], and the nil token
Token(from, to) == [nil |-> FALSE, from |-> from, to |-> to]
NilToken        == [nil |-> TRUE, from |-> 0, to |-> 0]

\* scanLines, had it consumed the whole data when it asks for more
scanLinesDropsPartial(data, atEOF) ==
    LET n     == data.len
        start == CHOOSE i \in 0..n :
                     /\ i = n \/ ~isIgnore(At(data, i))
                     /\ \A j \in 0..(i - 1) : isIgnore(At(data, j))
        seps  == { i \in start..(n - 1) : isIgnore(At(data, i)) }
        i     == CHOOSE k \in seps : \A m \in seps : k <= m
    IN  IF atEOF /\ n = 0
        THEN [advance |-> 0, token |-> NilToken]
        ELSE IF seps # {}
        THEN [advance |-> i + 1, token |-> Token(start, i)]
        ELSE IF atEOF /\ n > start
        THEN [advance |-> n, token |-> Token(start, n)]
        ELSE [advance |-> n, token |-> NilToken]

\* scanLines, had it not skipped the separators at the head of the data
scanLinesNoSkip(data, atEOF) ==
    LET n     == data.len
        start == 0
        seps  == { i \in start..(n - 1) : isIgnore(At(data, i)) }
        i     == CHOOSE k \in seps : \A m \in seps : k <= m
    IN  IF atEOF /\ n = 0
        THEN [advance |-> 0, token |-> NilToken]
        ELSE IF seps # {}
        THEN [advance |-> i + 1, token |-> Token(start, i)]
        ELSE IF atEOF /\ n > start
        THEN [advance |-> n, token |-> Token(start, n)]
        ELSE [advance |-> start, token |-> NilToken]

\* scanLines, had it no final flush of an unterminated line
scanLinesNoFlush(data, atEOF) ==
    LET n     == data.len
        start == CHOOSE i \in 0..n :
                     /\ i = n \/ ~isIgnore(At(data, i))
                     /\ \A j \in 0..(i - 1) : isIgnore(At(data, j))
        seps  == { i \in start..(n - 1) : isIgnore(At(data, i)) }
        i     == CHOOSE k \in seps : \A m \in seps : k <= m
    IN  IF atEOF /\ n = 0
        THEN [advance |-> 0, token |-> NilToken]
        ELSE IF seps # {}
        THEN [advance |-> i + 1, token |-> Token(start, i)]
        ELSE [advance |-> start, token |-> NilToken]

\* scanLines(data, atEOF): skip the leading separators up to start, return
\* data[start:i] for the first separator at i >= start, the rest of the data
\* at the end of the stream, and otherwise ask for more data
scanLines(data, atEOF) ==
    LET n     == data.len
        start == CHOOSE i \in 0..n :
                     /\ i = n \/ ~isIgnore(At(data, i))
                     /\ \A j \in 0..(i - 1) : isIgnore(At(data, j))
        seps  == { i \in start..(n - 1) : isIgnore(At(data, i)) }
        i     == CHOOSE k \in seps : \A m \in seps : k <= m
    IN  IF atEOF /\ n = 0
        THEN [advance |-> 0, token |-> NilToken]
        ELSE IF seps # {}
        THEN [advance |-> i + 1, token |-> Token(start, i)]
        ELSE IF atEOF /\ n > start
        THEN [advance |-> n, token |-> Token(start, n)]
        ELSE [advance |-> start, token |-> NilToken]

\* the numbers of bytes one Read may return when avail bytes are there and
\* the buffer has room for room of them: any number from 1 on; of the reads
\* that leave more than MaxStream bytes behind only the largest are kept
ReadSizes(avail, room) ==
    LET m == IF avail < room THEN avail ELSE room
    IN  (IF m > MaxStream THEN m - MaxStream ELSE 1)..m

\* s.Scan() up to the point where it returns or has to read: the split
\* function is called on the buffered data when there is any or the stream
\* has ended; a token makes Scan return true (readLoop sends it and calls
\* Scan again), no token at the end of the stream makes it return false, and
\* no token in a buffer that is full at its largest size is ErrTooLong
ScanSplit ==
    /\ spc = "split"
    /\ IF scanEnd > scanStart \/ scanErr # "nil"
       THEN LET r == scanLines(Slice(stream, scanStart, scanEnd),
                               scanErr # "nil")
            IN  /\ scanStart' = scanStart + r.advance
                /\ IF ~r.token.nil
                   THEN /\ tokens' = Append(tokens,
                                 [from |-> scanStart + r.token.from + 1,
                                  to   |-> scanStart + r.token.to])
                        /\ spc' = "split"
                        /\ scanErr' = scanErr
                   ELSE /\ tokens' = tokens
                        /\ IF scanErr # "nil"
                           THEN spc' = "done" /\ scanErr' = scanErr
                           ELSE IF scanEnd - scanStart' >= MaxScanTokenSize
                           THEN spc' = "done" /\ scanErr' = "ErrTooLong"
                           ELSE spc' = "read" /\ scanErr' = scanErr
       ELSE /\ spc' = "read"
            /\ UNCHANGED << scanStart, tokens, scanErr >>
    /\ UNCHANGED << stream, scanEnd, sessVars >>

\* s.Scan(), the read: some of the bytes that are left arrive, or the stream
\* has ended and the Read returns io.EOF
ScanRead ==
    /\ spc = "read"
    /\ IF scanEnd < StreamLen(stream)
       THEN /\ \E n \in ReadSizes(StreamLen(stream) - scanEnd,
                                  MaxScanTokenSize - (scanEnd - scanStart)) :
                 scanEnd' = scanEnd + n
            /\ scanErr' = scanErr
       ELSE /\ scanErr' = "EOF"
            /\ scanEnd' = scanEnd
    /\ spc' = "split"
    /\ UNCHANGED << stream, scanStart, tokens, sessVars >>

\* readLoop's Scanner on a stream of the device, before the first Scan
InitFramer ==
    /\ NewSession("aquos.go", { <<>> }, { <<>> })
    /\ stream \in Streams
    /\ scanStart = 0
    /\ scanEnd = 0
    /\ scanErr = "nil"
    /\ tokens = <<>>
    /\ spc = "split"

NextFramer ==
    \/ ScanSplit
    \/ ScanRead

\* ------------------------------------------- readLoop on the byte stream
\* s.Err(): nil when the Scanner stopped at io.EOF, its error otherwise
ErrTooLong == <<"bufio.Scanner: token too long">>
ScannerErr == IF scanErr = "ErrTooLong" THEN ErrTooLong ELSE Nil

\* s.Text(): the bytes of the token
TokenText(t) == [i \in 1..(t.to - t.from + 1) |-> ByteAt(stream, t.from + i - 1)]

\* readLoop is in s.Scan(): every token Scan returned was sent
InScan == rpc = "scan" /\ Len(tokens) = nframed

\* readLoop is in s.Scan(): the Scanner calls the split function
ReadLoopSplit == InScan /\ ScanSplit

\* readLoop is in s.Scan(): the Scanner reads from the connection
ReadLoopRead == InScan /\ ScanRead

\* s.Scan() returned true: readLoop goes to send response{text: s.Text()}
ReadLoopScanLine ==
    /\ rpc = "scan"
    /\ Len(tokens) > nframed
    /\ nframed' = nframed + 1
    /\ rrec' = [TextRecord(TokenText(tokens[nframed'])) EXCEPT !.seq = nframed']
    /\ rpc' = "send"
    /\ UNCHANGED << cfgVars, scanVars, pc, cur, conn, werr, wire, inq,
                    chClosed, closeCount, loginRes, connectRes, info, callRes,
                    ncalls, closeRes, received, hs, hsWire, last,
                    unanswered, outstanding >>

\* s.Scan() returned false: readLoop goes to send response{err: s.Err()} and
\* then returns
ReadLoopScanEnd ==
    /\ rpc = "scan"
    /\ Len(tokens) = nframed
    /\ spc = "done"
    /\ nframed' = nframed + 1
    /\ rrec' = [TermRecord(ScannerErr) EXCEPT !.seq = nframed']
    /\ rpc' = "sendLast"
    /\ UNCHANGED << cfgVars, scanVars, pc, cur, conn, werr, wire, inq,
                    chClosed, closeCount, loginRes, connectRes, info, callRes,
                    ncalls, closeRes, received, hs, hsWire, last,
                    unanswered, outstanding >>

\* Connect on a device that sends the bytes of stream: readLoop frames them
\* with its Scanner, login and getInfo receive the records
NextReadLoop ==
    \/ DialOk
    \/ LoginTimeout
    \/ LoginRecv
    \/ SendCmd
    \/ ReadLine
    \/ ReadLoopSplit
    \/ ReadLoopRead
    \/ ReadLoopScanLine
    \/ ReadLoopScanEnd
    \/ ReaderClose

SpecReadLoop == InitFramer /\ [][NextReadLoop]_vars

\* ------------------------------------------------------- the specification
Next ==
    \/ DialFail
    \/ DialOk
    \/ LoginTimeout
    \/ LoginRecv
    \/ PasswordTimeout
    \/ PasswordRecv
    \/ OutcomeTimeout
    \/ OutcomeRecv
    \/ SendCmd
    \/ ReadLine
    \/ CallSurface
    \/ Close
    \/ DeviceEmit
    \/ DeviceClose
    \/ DeviceReset
    \/ ReaderScanLine
    \/ ReaderScanEnd
    \/ ReaderClose

Spec == Init /\ [][Next]_vars

SpecMain == InitMain /\ [][Next]_vars

SpecFramer == InitFramer /\ [][NextFramer]_vars

\* the client of unnamed/part_000: one Command Surface call on a new Client
InitPart == InitOf("part_000")

NextPart ==
    \/ PartDialFail
    \/ PartDialOk
    \/ LoginTimeout
    \/ LoginRecv
    \/ PasswordTimeout
    \/ PasswordRecv
    \/ OutcomeTimeout
    \/ OutcomeRecv
    \/ SendCmd
    \/ ReadLine
    \/ PartDeferredClose
    \/ Close
    \/ DeviceEmit
    \/ DeviceClose
    \/ DeviceReset
    \/ ReaderScanLine
    \/ ReaderScanEnd
    \/ ReaderClose

SpecPart == InitPart /\ [][NextPart]_vars

\* what the scheduling guarantees: the timer of a select fires unless a
\* record is received first, a goroutine that can take its next step takes
\* it, and a receive that can complete does.  Nothing makes the caller call
\* the Session again, the device send, or the stream end.
TimerFairness ==
    /\ WF_vars(LoginTimeout)
    /\ WF_vars(PasswordTimeout)
    /\ WF_vars(OutcomeTimeout)

Fairness ==
    /\ TimerFairness
    /\ WF_vars(SendCmd)
    /\ WF_vars(ReadLine)
    /\ WF_vars(ReaderScanLine)
    /\ WF_vars(ReaderScanEnd)
    /\ WF_vars(ReaderClose)

SpecFair == Spec /\ Fairness

\* Connect up to the return of login, with everything the device, readLoop
\* and a concurrent Close may do meanwhile
NextLogin ==
    \/ DialFail
    \/ DialOk
    \/ LoginTimeout
    \/ LoginRecv
    \/ PasswordTimeout
    \/ PasswordRecv
    \/ OutcomeTimeout
    \/ OutcomeRecv
    \/ Close
    \/ DeviceEmit
    \/ DeviceClose
    \/ DeviceReset
    \/ ReaderScanLine
    \/ ReaderScanEnd
    \/ ReaderClose

SpecLogin == Init /\ [][NextLogin]_vars /\ TimerFairness

TypeOK ==
    /\ pc \in {"init", "waitLogin", "waitPassword", "waitOutcome", "send",
               "read", "ready", "panicked", "deferred"}
    /\ conn \in {"nil", "open", "eof", "reset", "closed"}
    /\ rpc \in {"none", "scan", "send", "sendLast", "closing", "done"}
    /\ Pending <= MaxPending + 1
    /\ ncalls \in 0..MaxCalls

\* ------------------------------------------------------------ properties
IsPrompt(e, word) == e.ev = "recv" /\ e.err = Nil /\ Contains(e.text, word)

\* identity queries on the wire
InfoWritten ==
    Cardinality({ i \in DOMAIN wire :
                    \E k \in DOMAIN InfoCmds : wire[i] = InfoCmds[k] })


\* C1: once login has returned nil, a sendCommand never receives a line that
\* the device emitted before that command was written (a line that was on its
\* way to the caller when send put the command on the stream).
C1_AnswerEmittedAfterCommand ==
    (last.kind # "none" /\ last.loginOk /\ last.gotRec /\ ~last.got.term)
        => ~last.oldLine

\* C2: the records the caller received are the first records readLoop framed,
\* in the order it framed them: none lost, duplicated or reordered.
C2_ReceivedIsPrefixOfFramed ==
    /\ Len(received) <= nframed
    /\ \A i \in DOMAIN received : received[i].seq = i

\* C2 witness: after the timeout of the first select the caller received two
\* records, each emitted before the command that received it was written
C2_Witness ==
    /\ Len(hs) = 1 /\ hs[1].ev = "timeout"
    /\ Len(received) = 2
    /\ last.gotRec /\ last.got.seq = 2 /\ last.oldLine

\* C3 as stated: at most one command has been written whose sendCommand did
\* not receive a response record.
C3_AtMostOneUnanswered == unanswered <= 1

\* C3, amended: at most one command has been written whose sendCommand has
\* not returned yet; a command is left without a record only once the channel
\* is closed.
C3_AtMostOneOutstanding ==
    /\ outstanding <= 1
    /\ (outstanding = 1) <=> (pc = "read")
    /\ ~chClosed => unanswered = outstanding

\* C3 witness: the fourth identity query is written and not answered yet
C3_Witness == pc = "read" /\ cur.kind = "info" /\ cur.idx = 4 /\ outstanding = 1

C5_EveryLaterCallAlreadyClosed ==
    (last.kind # "none" /\ last.termBefore) => last.err = ErrAlreadyClosed

\* C5, amended: a sendCommand started after the terminal record was delivered
\* never succeeds: it returns the error of the write when the write fails and
\* "connection already closed" otherwise, and in neither case a record.
C5_EveryLaterCallFails ==
    (last.kind # "none" /\ last.termBefore) =>
        /\ ~last.gotRec
        /\ last.res = <<>>
        /\ last.err = IF last.wrote = 0 THEN ErrWrite ELSE ErrAlreadyClosed

\* C5 witness: a command written after the terminal record returned
\* "connection already closed"
C5_Witness ==
    /\ last.kind = "call" /\ last.termBefore /\ last.wrote > 0
    /\ last.err = ErrAlreadyClosed
    /\ callRes.err = ErrAlreadyClosed

\* C6: a sendCommand that was blocked in readLine, with no record on its way,
\* when the stream was closed returns an error.
C6_BlockedCallReturnsError ==
    (last.kind # "none" /\ last.blockedAtClose # "no") => last.err # Nil

\* C7: when the timeout of the first select fires, login returns nil and
\* nothing was written.
C7_TimeoutMeansNoLogin ==
    (Len(hs) >= 1 /\ hs[1].ev = "timeout") =>
        /\ Len(hs) = 1
        /\ loginRes = Nil
        /\ hsWire = <<>>
        /\ connectRes # ErrNoRespond

\* C7 witness: the timeout fired with both credentials configured and a
\* line already framed
C7_Witness ==
    /\ Len(hs) = 1 /\ hs[1].ev = "timeout"
    /\ Username # <<>> /\ Password # <<>>
    /\ nframed = 1 /\ received = <<>>

\* C8: "Login", username, "Password", password, silence: login returns nil
\* and the stream received the username and the password, each followed by a
\* carriage return, and nothing else.
C8_LoginDialogue ==
    ( /\ Username # <<>> /\ Password # <<>>
      /\ Len(hs) = 3
      /\ IsPrompt(hs[1], "Login")
      /\ IsPrompt(hs[2], "Password")
      /\ hs[3].ev = "timeout" )
    => /\ loginRes = Nil
       /\ hsWire = Username \o <<"\r">> \o Password \o <<"\r">>

\* C8 witness: the dialogue took place
C8_Witness ==
    /\ Len(hs) = 3 /\ hs[3].ev = "timeout"
    /\ Username = <<"user1">> /\ Password = <<"pass1">>
    /\ loginRes = Nil

\* C9: a prompt whose credential is not configured makes login fail with
\* the missing-credential error, and nothing is written after the prompt.
C9_MissingCredentialFails ==
    /\ (Len(hs) >= 1 /\ IsPrompt(hs[1], "Login") /\ Username = <<>>)
         => (loginRes = ErrNoUsername /\ connectRes = ErrNoUsername
             /\ hsWire = <<>> /\ Len(hs) = 1)
    /\ (Len(hs) >= 2 /\ IsPrompt(hs[2], "Password") /\ Password = <<>>)
         => (loginRes = ErrNoPassword /\ connectRes = ErrNoPassword
             /\ hsWire = SendBytes(Username) /\ Len(hs) = 2)

\* C10: Connect returns the error of login or of the failed identity query
\* at once: no identity query is written after login failed, none after a
\* query failed.
C10_ConnectFailsFast ==
    /\ Failed(loginRes) =>
         /\ connectRes = loginRes
         /\ InfoWritten = 0
         /\ info = << <<>>, <<>>, <<>>, <<>> >>
         /\ pc \notin {"waitLogin", "waitPassword", "waitOutcome"}
         /\ ncalls = 0 => (pc = "ready" /\ wire = hsWire)
    /\ (last.kind = "info" /\ last.err # Nil) =>
         /\ connectRes = last.err
         /\ cur.kind # "info"
         /\ InfoWritten = IF last.wrote > 0 THEN last.idx ELSE last.idx - 1
         /\ ncalls = 0 => pc = "ready"
    /\ (Failed(connectRes) /\ loginRes = Nil) => cur.kind # "info"

\* C10 witness: the second identity query was answered ERR
C10_Witness ==
    /\ connectRes = ErrAquos /\ last.kind = "info" /\ last.idx = 2
    /\ InfoWritten = 2 /\ pc = "ready"

\* records the caller received during the handshake
HsReceived == Cardinality({ i \in DOMAIN hs : hs[i].ev = "recv" })

\* one identity query as send puts it on the stream
QueryBytes(cmd) == << cmd, "1", " ", " ", " ", "\r" >>

\* the first k identity queries on the stream
RECURSIVE QueriesBytes(_)
QueriesBytes(k) ==
    IF k = 0 THEN <<>>
    ELSE QueriesBytes(k - 1)
           \o QueryBytes(<< "TVNM", "MNRD", "SWVN", "IPPV" >>[k])

\* C11: after login returned nil the stream receives TVNM, MNRD, SWVN, IPPV,
\* each with argument "1", in that order and nothing in between; a query is
\* written only after the one before it received its record; Connect returns
\* nil only after four records were received for the four queries, and each
\* record's text is stored in the field of its query.
C11_IdentityQueriesInOrder ==
    /\ (loginRes = Nil /\ ncalls = 0) =>
         /\ wire = hsWire \o QueriesBytes(InfoWritten)
         /\ InfoWritten >= 1 =>
              /\ Len(received) - HsReceived >= InfoWritten - 1
              /\ Len(received) - HsReceived <= InfoWritten
         /\ pc = "read" => Len(received) - HsReceived = InfoWritten - 1
    /\ (last.kind = "info" /\ last.err = Nil) =>
         /\ last.gotRec
         /\ last.wrote > 0
         /\ info[last.idx] = last.got.text
         /\ \A j \in (last.idx + 1)..4 : info[j] = <<>>
    /\ connectRes = Nil =>
         /\ loginRes = Nil
         /\ InfoWritten = 4
         /\ Len(received) - HsReceived >= 4
         /\ ncalls = 0 => (last.kind = "info" /\ last.idx = 4
                           /\ last.err = Nil /\ pc = "ready"
                           /\ Len(received) - HsReceived = 4)

\* C11 witness: Connect returned nil after the device answered the four
\* queries one by one
C11_Witness ==
    /\ connectRes = Nil /\ ncalls = 0
    /\ Len(hs) = 1 /\ hs[1].ev = "timeout"
    /\ info = << <<"30">>, <<"30">>, <<"30">>, <<"30">> >>
    /\ ~last.oldLine

\* the step in which a sendCommand receives the record "ERR"
ReceivesERR ==
    /\ pc = "read" /\ pc' # "read"
    /\ ~chClosed /\ rrec.err = Nil /\ rrec.text = <<"ERR">>

\* C12: a sendCommand that receives the record "ERR" returns the error "aquos
\* returns a error" (Volume returns it with value 0, getInfo makes Connect
\* return it); the step leaves the stream, the writer and the channel as they
\* were and readLoop goes back to Scan; the next sendCommand that receives a
\* record receives the record framed next.
C12_ErrIsPerCall ==
    /\ [](/\ (last.gotRec /\ ~last.got.term /\ last.got.text = <<"ERR">>) =>
               /\ last.err = <<"aquos returns a error">>
               /\ last.kind = "call" =>
                    (callRes.err = last.err /\ callRes.val = 0)
               /\ last.kind = "info" => connectRes = last.err
          /\ last.gotRec => last.got.seq = Len(received))
    /\ [][ /\ ReceivesERR =>
                /\ last'.err = <<"aquos returns a error">>
                /\ conn' = conn /\ werr' = werr /\ wire' = wire
                /\ chClosed' = chClosed /\ closeCount' = closeCount
                /\ rpc' = "scan" /\ inq' = inq
           /\ (last.err = <<"aquos returns a error">>
                 /\ last' # last /\ last'.gotRec) =>
                    last'.got.seq = last.got.seq + 1 ]_vars

\* C12 witness: an identity query was answered "ERR", and the Volume call
\* made afterwards on the same Session received the next record, "30"
C12_Witness ==
    /\ connectRes = <<"aquos returns a error">>
    /\ last.kind = "call" /\ last.gotRec /\ last.got.text = <<"30">>
    /\ callRes = [res |-> <<"30">>, err |-> Nil, val |-> 30]
    /\ conn = "open" /\ ~chClosed /\ rpc = "scan"

\* C13: Close never returns an error, whatever the state of the Session: never
\* connected, connected, or closed already by an earlier Close.
C13_CloseReturnsNoError == closeRes \in { <<"none">>, Nil }

\* the maximal runs of bytes of s that are not separators, as slices
Runs(s) ==
    LET n   == StreamLen(s)
        ign == { i \in 1..n : isIgnore(ByteAt(s, i)) } \cup { n + 1 }
        lastOf(f) ==
            (CHOOSE k \in ign : k > f /\ \A m \in ign : m > f => k <= m) - 1
    IN  { [from |-> f, to |-> lastOf(f)] :
            f \in { i \in 1..n : i \notin ign /\ (i = 1 \/ (i - 1) \in ign) } }

\* the runs in the order of the stream
RunsSeq(s) ==
    LET R == Runs(s)
    IN  CHOOSE q \in [1..Cardinality(R) -> R] :
            \A i, j \in 1..Cardinality(R) : i < j => q[i].from < q[j].from

IsPrefix(p, q) == Len(p) <= Len(q) /\ \A i \in DOMAIN p : p[i] = q[i]

\* the runs that come before the first run that does not fit the buffer
RunsThatFit(s) ==
    LET q == RunsSeq(s)
        long == { i \in DOMAIN q : q[i].to - q[i].from + 1 >= MaxScanTokenSize }
    IN  IF long = {} THEN q
        ELSE SubSeq(q, 1, (CHOOSE i \in long : \A j \in long : i <= j) - 1)

\* C14 as stated: for every stream and every chunking the tokens of the
\* Scanner are the maximal runs of non-separator bytes of the stream, in
\* order; a run that ends the stream is returned at the final flush only.
C14_FramerEmitsMaximalRuns ==
    /\ IsPrefix(tokens, RunsSeq(stream))
    /\ spc = "done" => tokens = RunsSeq(stream)
    /\ \A i \in DOMAIN tokens :
         tokens[i].to = StreamLen(stream) => scanErr = "EOF"

\* C14, amended: the same for the runs shorter than the Scanner's buffer; at
\* the first run of MaxScanTokenSize bytes or more the Scanner stops with
\* ErrTooLong, having returned the runs before it.
C14_FramerEmitsRunsThatFit ==
    /\ IsPrefix(tokens, RunsThatFit(stream))
    /\ spc = "done" =>
         /\ tokens = RunsThatFit(stream)
         /\ scanErr = IF RunsThatFit(stream) = RunsSeq(stream)
                       THEN "EOF" ELSE "ErrTooLong"
    /\ \A i \in DOMAIN tokens :
         tokens[i].to = StreamLen(stream) => scanErr = "EOF"

\* C14 witness: a line, a separator and an unterminated line were framed
C14_Witness ==
    /\ spc = "done" /\ scanErr = "EOF"
    /\ stream = [pad |-> 0, body |-> << "a", "\r", "b" >>]
    /\ tokens = << [from |-> 1, to |-> 1], [from |-> 3, to |-> 3] >>

\* C15: when a record containing "Login" was received and the username
\* written, and the timeout of the second select fires, login and Connect
\* return "failed to login (AQUOS does not respond)"; the handshake ends
\* there, with the username and nothing else on the stream, and Connect
\* writes nothing afterwards.
C15_SilenceAfterLoginPromptFails ==
    (Len(hs) >= 2 /\ IsPrompt(hs[1], "Login") /\ hs[2].ev = "timeout") =>
        /\ Len(hs) = 2
        /\ loginRes = <<"failed to login (AQUOS does not respond)">>
        /\ connectRes = loginRes
        /\ hsWire = Username \o <<"\r">>
        /\ ncalls = 0 => (wire = hsWire /\ pc = "ready")

\* C15 witness: the device sent "Login" and then nothing
C15_Witness ==
    /\ Len(hs) = 2 /\ IsPrompt(hs[1], "Login") /\ hs[2].ev = "timeout"
    /\ Username = <<"user1">> /\ Password = <<"pass1">>
    /\ wire = << "user1", "\r" >> /\ received = << [seq |-> 1, term |-> FALSE] >>

\* the bytes written during the handshake, while it runs and afterwards
HsWritten == IF loginRes = <<"none">> THEN wire ELSE hsWire

\* C16: the handshake writes nothing, or the username, or the username and
\* then the password, each once and followed by a carriage return; the
\* username only when the first record received contains "Login", the
\* password only when the second contains "Password"; after the handshake no
\* credential is written any more.
C16_CredentialsOnlyOnPrompt ==
    /\ HsWritten \in { <<>>,
                        Username \o <<"\r">>,
                        Username \o <<"\r">> \o Password \o <<"\r">> }
    /\ HsWritten # <<>> => (Len(hs) >= 1 /\ IsPrompt(hs[1], "Login"))
    /\ Len(HsWritten) > Len(Username) + 1 =>
          (Len(hs) >= 2 /\ IsPrompt(hs[2], "Password"))
    /\ loginRes # <<"none">> =>
          /\ IsPrefix(hsWire, wire)
          /\ \A i \in DOMAIN wire :
                i > Len(hsWire) => wire[i] \notin { "user1", "pass1" }

\* C16 witness: both credentials were written and the device rejected them;
\* the caller went on to issue a command
C16_Witness ==
    /\ hsWire = << "user1", "\r", "pass1", "\r" >>
    /\ Len(hs) = 3 /\ hs[3].ev = "recv" /\ hs[3].text = <<"ERR">>
    /\ Len(wire) > Len(hsWire)

\* the waits of login
Waits == { "waitLogin", "waitPassword", "waitOutcome" }

\* C17: login waits at most three times, each wait ended by its timer or by
\* a record; it receives at most three records and writes at most twice;
\* whatever the device does, each wait ends and login returns.
C17_HandshakeTerminates ==
    /\ [](/\ Len(hs) <= 3
          /\ HsReceived <= 3
          /\ NumWritten(HsWritten) <= 2
          /\ NumWritten(HsWritten) <= HsReceived
          /\ loginRes = <<"none">> => Len(received) = HsReceived
          /\ pc = "waitLogin" => Len(hs) = 0
          /\ pc = "waitPassword" => Len(hs) = 1
          /\ pc = "waitOutcome" => Len(hs) = 2
          /\ pc \in Waits <=> (conn # "nil" /\ loginRes = <<"none">>))
    /\ [][ (pc \in Waits) => (pc' = pc \/ Len(hs') = Len(hs) + 1) ]_vars
    /\ (pc \in Waits) ~> (loginRes # <<"none">>)

\* C17 witness: login returned after three waits, three records and two
\* writes
C17_Witness ==
    /\ Len(hs) = 3 /\ HsReceived = 3 /\ NumWritten(hsWire) = 2
    /\ loginRes # <<"none">>

\* C18: once Close has closed the connection, readLoop eventually closes
\* c.res and returns, also when no caller receives from c.res any more.
C18_ReaderTerminatesAfterClose ==
    (conn = "closed") ~> (chClosed /\ rpc = "done")

\* the command codes the client writes
CommandCodes == { "TVNM", "MNRD", "SWVN", "IPPV", "POWR", "VOLM" }

\* C19: a command is on the stream only when login has run and returned on
\* that connection, whatever the credentials; login runs once, and the bytes
\* of the handshake come before those of every command.
C19_NoCommandBeforeHandshakeDone ==
    /\ (\E i \in DOMAIN wire : wire[i] \in CommandCodes) =>
          /\ loginRes # <<"none">>
          /\ Len(hs) >= 1
    /\ loginRes # <<"none">> =>
          /\ IsPrefix(hsWire, wire)
          /\ \A i \in DOMAIN hsWire : hsWire[i] \notin CommandCodes

\* Connect returned an error after the dial succeeded
ConnectFailed == Failed(connectRes) /\ conn # "nil"

C21_EmptyRecordIsTerminal ==
    /\ \A i \in DOMAIN tokens : tokens[i].from <= tokens[i].to
    /\ (rpc \in {"send", "sendLast"} /\ rrec.text = <<>> /\ rrec.err = Nil) =>
          /\ rrec.term /\ rpc = "sendLast"
          /\ spc = "done" /\ scanErr = "EOF"
          /\ scanEnd = StreamLen(stream)
          /\ nframed = Len(tokens) + 1
    /\ rpc = "send" => (~rrec.term /\ rrec.text # <<>> /\ rrec.err = Nil)
    /\ \A i \in DOMAIN received :
          /\ received[i].seq = i
          /\ received[i].term => (i = Len(received) /\ i = Len(tokens) + 1)
    /\ rpc \in {"closing", "done"} <=> TermDelivered
    /\ chClosed => (rpc = "done" /\ Len(received) = nframed)

\* C21 witness: the stream "a\r\n" ended; the line "a" and then the empty
\* terminal record were received, and c.res is closed
C21_Witness ==
    /\ stream = [pad |-> 0, body |-> << "a", "\r", "\n" >>]
    /\ tokens = << [from |-> 1, to |-> 1] >>
    /\ received = << [seq |-> 1, term |-> FALSE], [seq |-> 2, term |-> TRUE] >>
    /\ rrec.text = <<>> /\ rrec.err = Nil /\ rrec.term
    /\ chClosed

\* the data the Scanner hands to the split function: s.buf[s.start:s.end]
Buffered == Slice(stream, scanStart, scanEnd)

\* the number of separators at the head of data, which is the position of
\* its first byte that is no separator
LeadingIgnorable(data) ==
    CHOOSE k \in 0..data.len :
        /\ \A j \in 0..(k - 1) : isIgnore(At(data, j))
        /\ k = data.len \/ ~isIgnore(At(data, k))

\* the split function is about to be called, not at the final flush, on data
\* with no separator at or after the first byte that is no separator
SplitWaits ==
    /\ spc = "split"
    /\ scanErr = "nil"
    /\ scanEnd > scanStart
    /\ \A i \in LeadingIgnorable(Buffered)..(Buffered.len - 1) :
          ~isIgnore(At(Buffered, i))

\* C22 as stated: called before the end of the stream on data that has a
\* byte that is no separator and no separator after it, the split function
\* returns no token and consumes zero bytes.
C22_WaitConsumesNothing ==
    [][ (SplitWaits /\ LeadingIgnorable(Buffered) < Buffered.len) =>
           (tokens' = tokens /\ scanStart' = scanStart) ]_vars

\* C22, amended: called before the end of the stream on data with no
\* separator at or after the first byte that is no separator, the split
\* function returns no token and consumes the separators at the head of the
\* data and nothing else; the Scanner then reads more or, with its buffer
\* full, stops.
C22_WaitConsumesLeadingSeparators ==
    [][ SplitWaits =>
           /\ tokens' = tokens
           /\ scanStart' = scanStart + LeadingIgnorable(Buffered)
           /\ scanEnd' = scanEnd
           /\ spc' \in { "read", "done" } ]_vars

\* C22 witness: of the stream "\nab" the Scanner read "\na", the split
\* function consumed the "\n" and returned no token, and the Scanner is
\* about to read more
C22_Witness ==
    /\ stream = [pad |-> 0, body |-> << "\n", "a", "b" >>]
    /\ scanStart = 1 /\ scanEnd = 2
    /\ tokens = <<>> /\ scanErr = "nil" /\ spc = "read"

====
